---- MODULE Spec2Model ----
(***************************************************************************)
(* The administrative scripts of the drift-sdk repository as one state     *)
(* machine.  A run is one invocation of one script against a shared chain. *)
(* Every step of a script that suspends on the network (an await) is one   *)
(* action; the synchronous code that follows the await belongs to the same *)
(* action.  The network (RPC node, on-chain program) is the environment:   *)
(* each call draws its outcome from the outcomes the call can produce.     *)
(***************************************************************************)
EXTENDS Integers, Sequences, FiniteSets, TLC

\* ------------------------------------------------------------------ bounds
MaxRuns == 2
MaxHeight == 2
MaxMarkets == 2
FairRuns == 1

\* --------------------------------------------------------------- constants
Keys == {"X", "Y"}

Scripts ==
  { "updateAdmin", "initUser", "perpMarket", "validatedSpotMarket",
    "createSpotMarket", "placeOrder", "initializeProgram", "checkState",
    "mockUSDCMint" }

\* Settings a run reads before its first network call.
Settings == { "keyPath", "keyFile", "programId", "mint", "newAdmin" }

\* The settings each script reads from the environment and the file system
\* (the other scripts hardcode the program address and the key file path).
Required(s) ==
  CASE s = "updateAdmin"         -> { "keyPath", "keyFile", "programId", "newAdmin" }
    [] s = "initUser"            -> { "keyFile" }
    [] s = "perpMarket"          -> { "keyPath", "keyFile", "programId" }
    [] s = "validatedSpotMarket" -> { "keyPath", "keyFile", "programId", "mint" }
    [] s = "createSpotMarket"    -> { "keyFile" }
    [] s = "placeOrder"          -> { "keyFile" }
    [] s = "initializeProgram"   -> { "keyPath", "keyFile", "programId", "mint" }
    [] s = "checkState"          -> { "keyPath", "keyFile", "programId" }
    [] OTHER                     -> { "keyFile" }

VARIABLES
  script,            \* the script of the current run, "none" between runs
  pc,                \* position of the run in its script
  runs,              \* number of runs started
  chain,             \* the on-chain state account
  height,            \* the latest block reference of the chain
  missing,           \* the setting that is missing in this run, "none"
  signer,            \* public key of the loaded keypair
  newAdminPublicKey, \* NEW_ADMIN_PUBLIC_KEY of this run
  weights,           \* the margin weights written in the script that runs
  lastReport,        \* in a run of check-state or update-admin that
                     \* follows a run of the same script: what the run
                     \* before reported of the state account
  subscribeCalls,    \* client.subscribe() invocations of this run
  unsubscribeCalls,  \* client.unsubscribe() invocations of this run
  state,             \* the state account as the script read it
  marketIndex,       \* the script's local marketIndex
  tx,                \* the Transaction object the script holds
  latestBlockHash,   \* the script's local latestBlockHash (update-admin)
  calls,             \* network calls of this run, in order
  out,               \* console output of this run, in order
  error,             \* the exception in flight or caught
  exitCode           \* exit status of the process, -1 while it runs

vars ==
  << script, pc, runs, chain, height, missing, signer, newAdminPublicKey,
     weights, lastReport,
     subscribeCalls, unsubscribeCalls, state, marketIndex, tx,
     latestBlockHash, calls, out, error, exitCode >>

\* What a run never changes once it has started.
runVars ==
  << script, runs, missing, signer, newAdminPublicKey, weights, lastReport >>

\* ---------------------------------------------------------------- records
NoIx == [name |-> "none", index |-> 0, key |-> "none"]
Ix(n, i, k) == [name |-> n, index |-> i, key |-> k]

\* new Transaction(): no fee payer, no blockhash.
NewTransaction(id, ix) ==
  [id |-> id, ix |-> ix, feePayer |-> "unset", recentBlockhash |-> 0]
NoTx == NewTransaction(0, NoIx)

NoState ==
  [exists |-> FALSE, admin |-> "none", numberOfMarkets |-> 0,
   numberOfSpotMarkets |-> 0, signerOk |-> FALSE]

NoError == [kind |-> "none", ste |-> FALSE, logs |-> << >>]
Err(kind) == [kind |-> kind, ste |-> FALSE, logs |-> << >>]

Msg(text, arg) == [text |-> text, arg |-> arg]
Call(op, t, bh, res) ==
  [op |-> op, tx |-> t.id, feePayer |-> t.feePayer, blockhash |-> bh, res |-> res]

SigOf(id) == IF id = 1 THEN "sig1" ELSE IF id = 2 THEN "sig2" ELSE "none"

ProgramLogs == << "Program log: Instruction", "Program log: Error" >>

\* error.logs.forEach(log => console.log(log))
LogLines(logs) == [i \in 1..Len(logs) |-> Msg("log", logs[i])]

\* ------------------------------------------------------- on-chain program
\* Whether the on-chain program executes the instruction without error when
\* the transaction is signed by `who`.
Accepts(ix, who) ==
  CASE ix.name = "initialize" -> ~chain.exists
    [] ix.name = "updateAdmin" -> chain.exists /\ who = chain.admin
    [] ix.name = "initializeSpotMarket" ->
         chain.exists /\ who = chain.admin /\ ix.index = chain.numberOfSpotMarkets
    [] ix.name = "initializePerpMarket" ->
         chain.exists /\ who = chain.admin /\ ix.index = chain.numberOfMarkets
    [] ix.name = "initializePredictionMarket" ->
         chain.exists /\ who = chain.admin /\ ix.index < chain.numberOfMarkets
    [] OTHER -> TRUE

\* The state account after the instruction executed successfully.
Applied(ix, who) ==
  CASE ix.name = "initialize" ->
         [exists |-> TRUE, admin |-> who, numberOfMarkets |-> 0,
          numberOfSpotMarkets |-> 0, signerOk |-> TRUE]
    [] ix.name = "updateAdmin" -> [chain EXCEPT !.admin = ix.key]
    [] ix.name = "initializeSpotMarket" ->
         [chain EXCEPT !.numberOfSpotMarkets = @ + 1]
    [] ix.name = "initializePerpMarket" ->
         [chain EXCEPT !.numberOfMarkets = @ + 1]
    [] OTHER -> chain

\* --------------------------------------------------------- network calls
\* Outcomes of a submission: a signature, or a rejection.  With preflight
\* the node simulates the transaction first and rejects, with the program's
\* log lines, one the program would not execute.
SendOutcomes(ix, who, skipPreflight) ==
  (IF skipPreflight \/ Accepts(ix, who) THEN { "sig" } ELSE { })
    \cup { "network" }
    \cup (IF ~skipPreflight /\ ~Accepts(ix, who) THEN { "preflight" } ELSE { })

SendError(o) ==
  IF o = "preflight"
    THEN [kind |-> "submit", ste |-> TRUE, logs |-> ProgramLogs]
    ELSE [kind |-> "submit", ste |-> FALSE, logs |-> << >>]

\* Outcomes of a confirmation wait: the transaction executed ("ok"), was
\* included but its execution failed ("err": the wait returns a result whose
\* err is not null), or was not seen before the wait ran out ("expired": the
\* wait throws).
ConfirmOutcomes(ix, who) ==
  (IF Accepts(ix, who) THEN { "ok" } ELSE { }) \cup { "err", "expired" }

\* The chain after a confirmation wait with outcome o.
ChainAfter(o, ix, who) == IF o = "ok" THEN Applied(ix, who) ELSE chain

\* connection.getLatestBlockhash(): the chain may have advanced.
Blockhashes == { h \in height..MaxHeight : h <= height + 1 }


\* ------------------------------------------------------- steps of a script
\* Each fragment below is one awaited call with the synchronous code around
\* it.  A fragment fixes calls', out', error' and pc'; the action that uses
\* it fixes the rest.

\* Reading the settings and the key file, before any network call.
Load(read, next) ==
  /\ pc = "load"
  /\ IF missing \in read
       THEN pc' = "rejected" /\ error' = Err("config")
       ELSE pc' = next /\ error' = error
  /\ UNCHANGED << calls, out >>

\* await client.subscribe()
Subscribe(msgs, next, onThrow) ==
  /\ subscribeCalls' = subscribeCalls + 1
  /\ \E ok \in BOOLEAN :
       IF ok
         THEN /\ calls' = Append(calls, Call("subscribe", NoTx, 0, "ok"))
              /\ out' = out \o msgs
              /\ pc' = next
              /\ error' = error
         ELSE /\ calls' = Append(calls, Call("subscribe", NoTx, 0, "throw"))
              /\ out' = out
              /\ pc' = onThrow
              /\ error' = Err("subscribe")

\* await client.unsubscribe(), the finally block
Unsubscribe(msgs, next) ==
  /\ unsubscribeCalls' = unsubscribeCalls + 1
  /\ \E ok \in BOOLEAN :
       IF ok
         THEN /\ calls' = Append(calls, Call("unsubscribe", NoTx, 0, "ok"))
              /\ out' = out \o msgs
              /\ pc' = next
              /\ error' = error
         ELSE /\ calls' = Append(calls, Call("unsubscribe", NoTx, 0, "throw"))
              /\ out' = out
              /\ pc' = "rejected"
              /\ error' = Err("unsubscribe")

\* const ix = await client.get...Ix(...); const tx = new Transaction(); tx.add(ix)
BuildTransaction(id, ix, next, onThrow) ==
  /\ \E ok \in BOOLEAN :
       IF ok
         THEN tx' = NewTransaction(id, ix) /\ pc' = next /\ error' = error
         ELSE tx' = tx /\ pc' = onThrow /\ error' = Err("build")
  /\ UNCHANGED << calls, out >>

\* The blockhash of an earlier moment attached instead of the fetched one.
SetFeePayerAndBlockhash_stale(t, next, onThrow) ==
  \E ok \in BOOLEAN :
    IF ok
      THEN \E h \in Blockhashes :
             /\ height' = h
             /\ tx' = [t EXCEPT !.feePayer = signer, !.recentBlockhash = height]
             /\ calls' = Append(calls, Call("getLatestBlockhash", NoTx, h, "ok"))
             /\ out' = out
             /\ pc' = next
             /\ error' = error
      ELSE /\ height' = height
           /\ tx' = [t EXCEPT !.feePayer = signer]
           /\ calls' = Append(calls, Call("getLatestBlockhash", NoTx, 0, "throw"))
           /\ out' = out
           /\ pc' = onThrow
           /\ error' = Err("blockhash")

\* tx.feePayer = keypair.publicKey;
\* tx.recentBlockhash = (await connection.getLatestBlockhash()).blockhash;
SetFeePayerAndBlockhash(t, next, onThrow) ==
  \E ok \in BOOLEAN :
    IF ok
      THEN \E h \in Blockhashes :
             /\ height' = h
             /\ tx' = [t EXCEPT !.feePayer = signer, !.recentBlockhash = h]
             /\ calls' = Append(calls, Call("getLatestBlockhash", NoTx, h, "ok"))
             /\ out' = out
             /\ pc' = next
             /\ error' = error
      ELSE /\ height' = height
           /\ tx' = [t EXCEPT !.feePayer = signer]
           /\ calls' = Append(calls, Call("getLatestBlockhash", NoTx, 0, "throw"))
           /\ out' = out
           /\ pc' = onThrow
           /\ error' = Err("blockhash")

\* A rejected submission that is not thrown: the script goes on.
SendTransaction_swallowsRejection(t, skipPreflight, msgs, next, onThrow) ==
  \E o \in SendOutcomes(t.ix, signer, skipPreflight) :
    /\ calls' = Append(calls, Call("send", t, t.recentBlockhash, o))
    /\ out' = out \o msgs
    /\ pc' = next
    /\ error' = IF o = "sig" THEN error ELSE SendError(o)

\* await connection.sendTransaction(tx, [keypair], { skipPreflight })
SendTransaction(t, skipPreflight, msgs, next, onThrow) ==
  \E o \in SendOutcomes(t.ix, signer, skipPreflight) :
    /\ calls' = Append(calls, Call("send", t, t.recentBlockhash, o))
    /\ IF o = "sig"
         THEN /\ out' = out \o msgs
              /\ pc' = next
              /\ error' = error
         ELSE /\ out' = out
              /\ pc' = onThrow
              /\ error' = SendError(o)

\* A wait that ran out taken for a wait that returned.
ConfirmTransaction_ignoresExpiry(t, bh, inspect, msgs, next, onThrow) ==
  \E o \in ConfirmOutcomes(t.ix, signer) :
    /\ chain' = ChainAfter(o, t.ix, signer)
    /\ calls' = Append(calls, Call("confirm", t, bh, o))
    /\ IF inspect /\ o = "err"
         THEN /\ out' = out
              /\ pc' = onThrow
              /\ error' = Err("failed")
         ELSE /\ out' = out \o msgs
              /\ pc' = next
              /\ error' = error

\* await connection.confirmTransaction(...): bh is the block reference the
\* wait is given, 0 when it is given the signature alone.  The scripts do
\* not look at the result of a wait that returns (inspect = FALSE);
\* sendAndConfirmTransaction throws when the result carries an error.
ConfirmTransaction(t, bh, inspect, msgs, next, onThrow) ==
  \E o \in ConfirmOutcomes(t.ix, signer) :
    /\ chain' = ChainAfter(o, t.ix, signer)
    /\ calls' = Append(calls, Call("confirm", t, bh, o))
    /\ IF o = "expired" \/ (inspect /\ o = "err")
         THEN /\ out' = out
              /\ pc' = onThrow
              /\ error' = Err(IF o = "expired" THEN "confirm" ELSE "failed")
         ELSE /\ out' = out \o msgs
              /\ pc' = next
              /\ error' = error

\* The process after main() settled: exit 0 when it resolved; when it
\* rejected, the script's handler, if it has one, prints and sets the status.
Settle(msgs, status) ==
  /\ pc \in { "returned", "rejected" }
  /\ IF pc = "returned"
       THEN out' = out /\ exitCode' = 0
       ELSE out' = out \o msgs /\ exitCode' = status
  /\ pc' = "exited"
  /\ UNCHANGED << calls, error >>

\* ------------------------------------------------------------------- Init
\* Parameters of the market, in tenths (0.8 is 8); the weight precision of
\* the SDK is 10000, in the same unit 100000.
optimalUtilization == 8
optimalRate == 1
maxRate == 2
initialAssetWeight == 10
maintenanceAssetWeight == 10
initialLiabilityWeight == 10
maintenanceLiabilityWeight == 10
SPOT_MARKET_WEIGHT_PRECISION == 100000

\* The four margin weights of a spot market.
WeightNames ==
  { "initialAssetWeight", "maintenanceAssetWeight", "initialLiabilityWeight",
    "maintenanceLiabilityWeight" }

\* The weights are literals of the two spot-market scripts.  A run is taken
\* with the values as written (1.0 each) or with one of them edited to a
\* value above the weight precision.
WrittenWeights ==
  [n \in WeightNames |->
     CASE n = "initialAssetWeight" -> initialAssetWeight
       [] n = "maintenanceAssetWeight" -> maintenanceAssetWeight
       [] n = "initialLiabilityWeight" -> initialLiabilityWeight
       [] OTHER -> maintenanceLiabilityWeight]

ProposedWeights ==
  { WrittenWeights } \cup
  { [WrittenWeights EXCEPT ![n] = SPOT_MARKET_WEIGHT_PRECISION + 1] :
      n \in WeightNames }
NoWeights == [n \in WeightNames |-> 0]

InitChains ==
  { NoState } \cup
  { [exists |-> TRUE, admin |-> a, numberOfMarkets |-> m,
     numberOfSpotMarkets |-> n, signerOk |-> s] :
      a \in Keys, m \in 0..MaxMarkets, n \in 0..MaxMarkets, s \in BOOLEAN }

Init ==
  /\ script = "none"
  /\ pc = "idle"
  /\ runs = 0
  /\ chain \in InitChains
  /\ height = 1
  /\ missing = "none"
  /\ signer = "none"
  /\ newAdminPublicKey = "none"
  /\ weights = NoWeights
  /\ lastReport = << >>
  /\ subscribeCalls = 0
  /\ unsubscribeCalls = 0
  /\ state = NoState
  /\ marketIndex = 0
  /\ tx = NoTx
  /\ latestBlockHash = 0
  /\ calls = << >>
  /\ out = << >>
  /\ error = NoError
  /\ exitCode = -1

\* The lines by which check-state reports what it read.
ReportTexts ==
  { "Number of Markets:", "Number of Spot Markets:", "State Account Exists:",
    "Spot Market Exists:", "Spot Market Configuration:" }

IsReport(m) == m.text \in ReportTexts

\* The line by which update-admin reports the admin it read.
IsAdminRead(m) == m.text = "Current program admin from chain is:"

\* A new invocation of a script: a fresh process, the chain as it is.
StartRun ==
  /\ script = "none" \/ pc = "exited"
  /\ runs < MaxRuns
  /\ runs' = runs + 1
  /\ script' \in Scripts
  /\ missing' \in { "none" } \cup Required(script')
  /\ signer' \in Keys
  /\ newAdminPublicKey' \in
       (IF script' = "updateAdmin" THEN Keys ELSE { "none" })
  \* A run that stops on a missing setting never reads the weights, so the
  \* edited proposals are drawn only for runs whose settings are complete.
  /\ weights' \in
       (IF script' \in { "validatedSpotMarket", "createSpotMarket" }
          THEN (IF missing' = "none" THEN ProposedWeights
                                     ELSE { WrittenWeights })
          ELSE { NoWeights })
  /\ lastReport' = IF script = "checkState" /\ script' = "checkState"
                     THEN SelectSeq(out, IsReport)
                   ELSE IF script = "updateAdmin" /\ script' = "updateAdmin"
                     THEN SelectSeq(out, IsAdminRead)
                   ELSE << >>
  /\ pc' = "load"
  /\ subscribeCalls' = 0
  /\ unsubscribeCalls' = 0
  /\ state' = NoState
  /\ marketIndex' = 0
  /\ tx' = NoTx
  /\ latestBlockHash' = 0
  /\ calls' = << >>
  /\ out' = << >>
  /\ error' = NoError
  /\ exitCode' = -1
  /\ UNCHANGED << chain, height >>

\* ------------------------------------------------------------ update-admin
UA == script = "updateAdmin"

UA_load ==
  /\ UA
  /\ Load({ "keyPath", "keyFile", "programId", "newAdmin" }, "subscribe")
  /\ UNCHANGED << runVars, chain, height, subscribeCalls, unsubscribeCalls,
                  state, marketIndex, tx, latestBlockHash, exitCode >>

UA_subscribe ==
  /\ UA /\ pc = "subscribe"
  /\ Subscribe(<< Msg("AdminClient subscribed.", "") >>, "fetchState", "catch")
  /\ UNCHANGED << runVars, chain, height, unsubscribeCalls, state,
                  marketIndex, tx, latestBlockHash, exitCode >>

\* The mismatch thrown instead of warned about.
UA_fetchState_throwsOnMismatch ==
  /\ UA /\ pc = "fetchState"
  /\ \E ok \in BOOLEAN :
       IF ok /\ chain.exists
         THEN /\ state' = chain
              /\ calls' = Append(calls, Call("fetchState", NoTx, 0, "ok"))
              /\ out' = out
                   \o << Msg("Current program admin from chain is:", chain.admin) >>
                   \o (IF chain.admin # signer
                         THEN << Msg("WARNING: does not match the current program admin",
                                     chain.admin) >>
                         ELSE << Msg("Updating admin to", newAdminPublicKey) >>)
              /\ pc' = IF chain.admin # signer THEN "catch" ELSE "updateAdmin"
              /\ error' = IF chain.admin # signer THEN Err("mismatch") ELSE error
         ELSE /\ state' = state
              /\ calls' = Append(calls, Call("fetchState", NoTx, 0, "throw"))
              /\ out' = out
              /\ pc' = "catch"
              /\ error' = Err("state")
  /\ UNCHANGED << runVars, chain, height, subscribeCalls, unsubscribeCalls,
                  marketIndex, tx, latestBlockHash, exitCode >>

\* The state account is read, the admin compared with the wallet.
UA_fetchState ==
  /\ UA /\ pc = "fetchState"
  /\ \E ok \in BOOLEAN :
       IF ok /\ chain.exists
         THEN /\ state' = chain
              /\ calls' = Append(calls, Call("fetchState", NoTx, 0, "ok"))
              /\ out' = out
                   \o << Msg("Current program admin from chain is:", chain.admin) >>
                   \o (IF chain.admin # signer
                         THEN << Msg("WARNING: does not match the current program admin",
                                     chain.admin) >>
                         ELSE << >>)
                   \o << Msg("Updating admin to", newAdminPublicKey) >>
              /\ pc' = "updateAdmin"
              /\ error' = error
         ELSE /\ state' = state
              /\ calls' = Append(calls, Call("fetchState", NoTx, 0, "throw"))
              /\ out' = out
              /\ pc' = "catch"
              /\ error' = Err("state")
  /\ UNCHANGED << runVars, chain, height, subscribeCalls, unsubscribeCalls,
                  marketIndex, tx, latestBlockHash, exitCode >>

\* The client submitting without the preflight simulation.
UA_updateAdmin_skipsPreflight ==
  /\ UA /\ pc = "updateAdmin"
  /\ tx' = NewTransaction(1, Ix("updateAdmin", 0, newAdminPublicKey))
  /\ SendTransaction(tx', TRUE,
                     << Msg("Update admin transaction sent. Signature:", SigOf(1)) >>,
                     "getLatestBlockhash", "catch")
  /\ UNCHANGED << runVars, chain, height, subscribeCalls, unsubscribeCalls,
                  state, marketIndex, latestBlockHash, exitCode >>

\* adminClient.updateAdmin builds, signs and submits the transaction itself:
\* the script sets neither a fee payer nor a blockhash.
UA_updateAdmin ==
  /\ UA /\ pc = "updateAdmin"
  /\ tx' = NewTransaction(1, Ix("updateAdmin", 0, newAdminPublicKey))
  /\ SendTransaction(tx', FALSE,
                     << Msg("Update admin transaction sent. Signature:", SigOf(1)) >>,
                     "getLatestBlockhash", "catch")
  /\ UNCHANGED << runVars, chain, height, subscribeCalls, unsubscribeCalls,
                  state, marketIndex, latestBlockHash, exitCode >>

UA_getLatestBlockhash ==
  /\ UA /\ pc = "getLatestBlockhash"
  /\ \E ok \in BOOLEAN :
       IF ok
         THEN \E h \in Blockhashes :
                /\ height' = h
                /\ latestBlockHash' = h
                /\ calls' = Append(calls, Call("getLatestBlockhash", NoTx, h, "ok"))
                /\ pc' = "confirm"
                /\ error' = error
         ELSE /\ height' = height
              /\ latestBlockHash' = latestBlockHash
              /\ calls' = Append(calls, Call("getLatestBlockhash", NoTx, 0, "throw"))
              /\ pc' = "catch"
              /\ error' = Err("blockhash")
  /\ UNCHANGED << runVars, chain, subscribeCalls, unsubscribeCalls, state,
                  marketIndex, tx, out, exitCode >>

UA_confirmTransaction ==
  /\ UA /\ pc = "confirm"
  /\ ConfirmTransaction(tx, latestBlockHash, FALSE,
                        << Msg("Transaction confirmed.", ""),
                           Msg("Verifying admin change...", "") >>,
                        "verify", "catch")
  /\ UNCHANGED << runVars, height, subscribeCalls, unsubscribeCalls, state,
                  marketIndex, tx, latestBlockHash, exitCode >>

\* Success reported for whatever admin the state holds.
UA_verifyMsg_anyAdmin(newStateAccount) ==
  IF newStateAccount.exists
    THEN Msg("Successfully updated admin to:", newStateAccount.admin)
    ELSE Msg("Failed to verify admin update. Current admin in state is:", "unknown")

\* The outcome of the comparison of the re-fetched admin with the new admin.
UA_verifyMsg(newStateAccount) ==
  IF newStateAccount.exists /\ newStateAccount.admin = newAdminPublicKey
    THEN Msg("Successfully updated admin to:", newStateAccount.admin)
    ELSE Msg("Failed to verify admin update. Current admin in state is:",
             IF newStateAccount.exists THEN newStateAccount.admin ELSE "unknown")

UA_verify ==
  /\ UA /\ pc = "verify"
  /\ \E ok \in BOOLEAN :
       IF ok
         THEN /\ state' = chain
              /\ calls' = Append(calls, Call("fetchState", NoTx, 0, "ok"))
              /\ out' = Append(out, UA_verifyMsg(chain))
              /\ pc' = "finally"
              /\ error' = error
         ELSE /\ state' = state
              /\ calls' = Append(calls, Call("fetchState", NoTx, 0, "throw"))
              /\ out' = out
              /\ pc' = "catch"
              /\ error' = Err("state")
  /\ UNCHANGED << runVars, chain, height, subscribeCalls, unsubscribeCalls,
                  marketIndex, tx, latestBlockHash, exitCode >>

UA_catch ==
  /\ UA /\ pc = "catch"
  /\ out' = out
       \o << Msg("Error updating admin:", error.kind) >>
       \o (IF error.logs # << >>
             THEN << Msg("Transaction Logs:", "") >> \o LogLines(error.logs)
             ELSE << >>)
  /\ pc' = "finally"
  /\ UNCHANGED << runVars, chain, height, subscribeCalls, unsubscribeCalls,
                  state, marketIndex, tx, latestBlockHash, calls, error,
                  exitCode >>

UA_finally ==
  /\ UA /\ pc = "finally"
  /\ Unsubscribe(<< Msg("AdminClient unsubscribed.", "") >>, "returned")
  /\ UNCHANGED << runVars, chain, height, subscribeCalls, state, marketIndex,
                  tx, latestBlockHash, exitCode >>

\* main().catch((err) => { console.error(...); process.exit(1); })
UA_main ==
  /\ UA
  /\ Settle(<< Msg("Unhandled error in main:", error.kind) >>, 1)
  /\ UNCHANGED << runVars, chain, height, subscribeCalls, unsubscribeCalls,
                  state, marketIndex, tx, latestBlockHash >>


\* --------------------------------------------------------------- init-user
IU == script = "initUser"

IU_load ==
  /\ IU
  /\ Load({ "keyFile" }, "subscribe")
  /\ UNCHANGED << runVars, chain, height, subscribeCalls, unsubscribeCalls,
                  state, marketIndex, tx, latestBlockHash, exitCode >>

IU_subscribe ==
  /\ IU /\ pc = "subscribe"
  /\ Subscribe(<< >>, "build", "catch")
  /\ UNCHANGED << runVars, chain, height, unsubscribeCalls, state,
                  marketIndex, tx, latestBlockHash, exitCode >>

IU_getInitializeUserAccountIxs ==
  /\ IU /\ pc = "build"
  /\ BuildTransaction(1, Ix("initializeUser", 0, "none"), "blockhash", "catch")
  /\ UNCHANGED << runVars, chain, height, subscribeCalls, unsubscribeCalls,
                  state, marketIndex, latestBlockHash, exitCode >>

IU_getLatestBlockhash ==
  /\ IU /\ pc = "blockhash"
  /\ SetFeePayerAndBlockhash(tx, "send", "catch")
  /\ UNCHANGED << runVars, chain, subscribeCalls, unsubscribeCalls, state,
                  marketIndex, latestBlockHash, exitCode >>

\* The confirmation wait left out: the signature is reported as success.
IU_sendTransaction_noWait ==
  /\ IU /\ pc = "send"
  /\ SendTransaction(tx, TRUE,
                     << Msg("Transaction confirmed!", ""),
                        Msg("User created!", SigOf(tx.id)) >>,
                     "finally", "catch")
  /\ UNCHANGED << runVars, chain, height, subscribeCalls, unsubscribeCalls,
                  state, marketIndex, tx, latestBlockHash, exitCode >>

IU_sendTransaction ==
  /\ IU /\ pc = "send"
  /\ SendTransaction(tx, TRUE, << Msg("Waiting for confirmation...", "") >>,
                     "confirm", "catch")
  /\ UNCHANGED << runVars, chain, height, subscribeCalls, unsubscribeCalls,
                  state, marketIndex, tx, latestBlockHash, exitCode >>

IU_confirmTransaction ==
  /\ IU /\ pc = "confirm"
  /\ ConfirmTransaction(tx, 0, FALSE,
                        << Msg("Transaction confirmed!", ""),
                           Msg("User created!", SigOf(tx.id)) >>,
                        "finally", "catch")
  /\ UNCHANGED << runVars, height, subscribeCalls, unsubscribeCalls, state,
                  marketIndex, tx, latestBlockHash, exitCode >>

IU_catch ==
  /\ IU /\ pc = "catch"
  /\ out' = Append(out, Msg("Error initializing user:", error.kind))
  /\ pc' = "finally"
  /\ UNCHANGED << runVars, chain, height, subscribeCalls, unsubscribeCalls,
                  state, marketIndex, tx, latestBlockHash, calls, error,
                  exitCode >>

IU_finally ==
  /\ IU /\ pc = "finally"
  /\ Unsubscribe(<< >>, "returned")
  /\ UNCHANGED << runVars, chain, height, subscribeCalls, state, marketIndex,
                  tx, latestBlockHash, exitCode >>

\* main().catch(console.error)
IU_main ==
  /\ IU
  /\ Settle(<< Msg("error", error.kind) >>, 0)
  /\ UNCHANGED << runVars, chain, height, subscribeCalls, unsubscribeCalls,
                  state, marketIndex, tx, latestBlockHash >>

\* ------------------------------------------------------------- place-order
PO == script = "placeOrder"

\* The key file is read when the module is loaded.
PO_load ==
  /\ PO
  /\ Load({ "keyFile" }, "subscribe")
  /\ UNCHANGED << runVars, chain, height, subscribeCalls, unsubscribeCalls,
                  state, marketIndex, tx, latestBlockHash, exitCode >>

PO_subscribe ==
  /\ PO /\ pc = "subscribe"
  /\ Subscribe(<< >>, "accounts", "catch")
  /\ UNCHANGED << runVars, chain, height, unsubscribeCalls, state,
                  marketIndex, tx, latestBlockHash, exitCode >>

\* The state account, perp market 1 and spot market 0 are read from the
\* client; a market that is not there ends the try block.
PO_getAccounts ==
  /\ PO /\ pc = "accounts"
  /\ IF ~chain.exists
       THEN state' = state /\ pc' = "catch" /\ error' = Err("state")
       ELSE /\ state' = chain
            /\ IF chain.numberOfMarkets > 1 /\ chain.numberOfSpotMarkets > 0
                 THEN pc' = "build" /\ error' = error
                 ELSE pc' = "catch" /\ error' = Err("market")
  /\ UNCHANGED << runVars, chain, height, subscribeCalls, unsubscribeCalls,
                  marketIndex, tx, latestBlockHash, calls, out, exitCode >>

PO_getPlacePerpOrderIx ==
  /\ PO /\ pc = "build"
  /\ BuildTransaction(1, Ix("placePerpOrder", 1, "none"), "blockhash", "catch")
  /\ UNCHANGED << runVars, chain, height, subscribeCalls, unsubscribeCalls,
                  state, marketIndex, latestBlockHash, exitCode >>

PO_getLatestBlockhash ==
  /\ PO /\ pc = "blockhash"
  /\ SetFeePayerAndBlockhash(tx, "send", "catch")
  /\ UNCHANGED << runVars, chain, subscribeCalls, unsubscribeCalls, state,
                  marketIndex, latestBlockHash, exitCode >>

PO_sendTransaction ==
  /\ PO /\ pc = "send"
  /\ SendTransaction(tx, TRUE, << Msg("Waiting for confirmation...", "") >>,
                     "confirm", "catch")
  /\ UNCHANGED << runVars, chain, height, subscribeCalls, unsubscribeCalls,
                  state, marketIndex, tx, latestBlockHash, exitCode >>

PO_confirmTransaction ==
  /\ PO /\ pc = "confirm"
  /\ ConfirmTransaction(tx, 0, FALSE,
                        << Msg("Transaction confirmed!", ""),
                           Msg("Order placed!", SigOf(tx.id)) >>,
                        "finally", "catch")
  /\ UNCHANGED << runVars, height, subscribeCalls, unsubscribeCalls, state,
                  marketIndex, tx, latestBlockHash, exitCode >>

\* The catch block unsubscribing too, before the finally block does.
PO_catch_unsubscribes ==
  /\ PO /\ pc = "catch"
  /\ unsubscribeCalls' = unsubscribeCalls + 1
  /\ calls' = Append(calls, Call("unsubscribe", NoTx, 0, "ok"))
  /\ out' = Append(out, Msg("Error placing order:", error.kind))
  /\ pc' = "finally"
  /\ UNCHANGED << runVars, chain, height, subscribeCalls, state, marketIndex,
                  tx, latestBlockHash, error, exitCode >>

PO_catch ==
  /\ PO /\ pc = "catch"
  /\ out' = Append(out, Msg("Error placing order:", error.kind))
  /\ pc' = "finally"
  /\ UNCHANGED << runVars, chain, height, subscribeCalls, unsubscribeCalls,
                  state, marketIndex, tx, latestBlockHash, calls, error,
                  exitCode >>

PO_finally ==
  /\ PO /\ pc = "finally"
  /\ Unsubscribe(<< >>, "returned")
  /\ UNCHANGED << runVars, chain, height, subscribeCalls, state, marketIndex,
                  tx, latestBlockHash, exitCode >>

\* placePredictionMarketOrder(): no handler; a rejection is left to the
\* runtime, which prints it and exits with status 1.
PO_main ==
  /\ PO
  /\ Settle(<< Msg("uncaught", error.kind) >>, 1)
  /\ UNCHANGED << runVars, chain, height, subscribeCalls, unsubscribeCalls,
                  state, marketIndex, tx, latestBlockHash >>

\* ------------------------------------------------------ initialize-program
IP == script = "initializeProgram"

IP_load ==
  /\ IP
  /\ Load({ "keyPath", "keyFile", "programId", "mint" }, "blockhash")
  /\ UNCHANGED << runVars, chain, height, subscribeCalls, unsubscribeCalls,
                  state, marketIndex, tx, latestBlockHash, exitCode >>

\* The initialize instruction is assembled locally; the blockhash fetch is
\* outside the try block.
IP_getLatestBlockhash ==
  /\ IP /\ pc = "blockhash"
  /\ SetFeePayerAndBlockhash(NewTransaction(1, Ix("initialize", 0, "none")),
                             "send", "rejected")
  /\ UNCHANGED << runVars, chain, subscribeCalls, unsubscribeCalls, state,
                  marketIndex, latestBlockHash, exitCode >>

IP_sendTransaction ==
  /\ IP /\ pc = "send"
  /\ SendTransaction(tx, FALSE,
                     << Msg("Transaction sent:", SigOf(tx.id)),
                        Msg("Waiting for confirmation...", "") >>,
                     "confirm", "catch")
  /\ UNCHANGED << runVars, chain, height, subscribeCalls, unsubscribeCalls,
                  state, marketIndex, tx, latestBlockHash, exitCode >>

IP_confirmTransaction ==
  /\ IP /\ pc = "confirm"
  /\ ConfirmTransaction(tx, 0, FALSE,
                        << Msg("Transaction confirmed!", ""),
                           Msg("Program initialized successfully!", "") >>,
                        "returned", "catch")
  /\ UNCHANGED << runVars, height, subscribeCalls, unsubscribeCalls, state,
                  marketIndex, tx, latestBlockHash, exitCode >>

\* catch (error) { ...; throw error; }
IP_catch ==
  /\ IP /\ pc = "catch"
  /\ out' = out
       \o << Msg("Transaction failed:", error.kind) >>
       \o (IF error.ste /\ error.logs # << >>
             THEN << Msg("Transaction logs:", "") >> \o LogLines(error.logs)
             ELSE << >>)
  /\ pc' = "rejected"
  /\ UNCHANGED << runVars, chain, height, subscribeCalls, unsubscribeCalls,
                  state, marketIndex, tx, latestBlockHash, calls, error,
                  exitCode >>

IP_main ==
  /\ IP
  /\ Settle(<< Msg("error", error.kind) >>, 0)
  /\ UNCHANGED << runVars, chain, height, subscribeCalls, unsubscribeCalls,
                  state, marketIndex, tx, latestBlockHash >>


\* ------------------------------------------------------ create-spot-market
CSM == script = "createSpotMarket"

CSM_load ==
  /\ CSM
  /\ Load({ "keyFile" }, "subscribe")
  /\ UNCHANGED << runVars, chain, height, subscribeCalls, unsubscribeCalls,
                  state, marketIndex, tx, latestBlockHash, exitCode >>

CSM_subscribe ==
  /\ CSM /\ pc = "subscribe"
  /\ Subscribe(<< >>, "state", "catch")
  /\ UNCHANGED << runVars, chain, height, unsubscribeCalls, state,
                  marketIndex, tx, latestBlockHash, exitCode >>

\* const state = adminClient.getStateAccount();
\* const marketIndex = state.numberOfMarkets;
CSM_getStateAccount ==
  /\ CSM /\ pc = "state"
  /\ IF chain.exists
       THEN /\ state' = chain
            /\ marketIndex' = chain.numberOfMarkets
            /\ pc' = "build"
            /\ error' = error
       ELSE /\ state' = state
            /\ marketIndex' = marketIndex
            /\ pc' = "catch"
            /\ error' = Err("state")
  /\ UNCHANGED << runVars, chain, height, subscribeCalls, unsubscribeCalls,
                  tx, latestBlockHash, calls, out, exitCode >>

CSM_getInitializeSpotMarketIx ==
  /\ CSM /\ pc = "build"
  /\ BuildTransaction(1, Ix("initializeSpotMarket", marketIndex, "none"),
                      "blockhash", "catch")
  /\ UNCHANGED << runVars, chain, height, subscribeCalls, unsubscribeCalls,
                  state, marketIndex, latestBlockHash, exitCode >>

CSM_getLatestBlockhash ==
  /\ CSM /\ pc = "blockhash"
  /\ SetFeePayerAndBlockhash(tx, "send", "catch")
  /\ UNCHANGED << runVars, chain, subscribeCalls, unsubscribeCalls, state,
                  marketIndex, latestBlockHash, exitCode >>

CSM_sendTransaction ==
  /\ CSM /\ pc = "send"
  /\ SendTransaction(tx, FALSE,
                     << Msg("Transaction sent:", SigOf(tx.id)),
                        Msg("Waiting for confirmation...", "") >>,
                     "confirm", "innerCatch")
  /\ UNCHANGED << runVars, chain, height, subscribeCalls, unsubscribeCalls,
                  state, marketIndex, tx, latestBlockHash, exitCode >>

CSM_confirmTransaction ==
  /\ CSM /\ pc = "confirm"
  /\ ConfirmTransaction(tx, 0, FALSE,
                        << Msg("Transaction confirmed!", ""),
                           Msg("USDC spot market initialized!", "") >>,
                        "finally", "innerCatch")
  /\ UNCHANGED << runVars, height, subscribeCalls, unsubscribeCalls, state,
                  marketIndex, tx, latestBlockHash, exitCode >>

\* The catch of the inner try: prints, and throws the error again.
CSM_innerCatch ==
  /\ CSM /\ pc = "innerCatch"
  /\ out' = out
       \o << Msg("Transaction failed:", error.kind) >>
       \o (IF error.ste THEN << Msg("Error details:", error.kind) >> ELSE << >>)
  /\ pc' = "catch"
  /\ UNCHANGED << runVars, chain, height, subscribeCalls, unsubscribeCalls,
                  state, marketIndex, tx, latestBlockHash, calls, error,
                  exitCode >>

CSM_catch ==
  /\ CSM /\ pc = "catch"
  /\ out' = Append(out, Msg("Error:", error.kind))
  /\ pc' = "finally"
  /\ UNCHANGED << runVars, chain, height, subscribeCalls, unsubscribeCalls,
                  state, marketIndex, tx, latestBlockHash, calls, error,
                  exitCode >>

CSM_finally ==
  /\ CSM /\ pc = "finally"
  /\ Unsubscribe(<< >>, "returned")
  /\ UNCHANGED << runVars, chain, height, subscribeCalls, state, marketIndex,
                  tx, latestBlockHash, exitCode >>

CSM_main ==
  /\ CSM
  /\ Settle(<< Msg("error", error.kind) >>, 0)
  /\ UNCHANGED << runVars, chain, height, subscribeCalls, unsubscribeCalls,
                  state, marketIndex, tx, latestBlockHash >>

\* ------------------------------------------- validated spot-market creation
VSM == script = "validatedSpotMarket"

\* The key file and PROGRAM_ID are read before the try block; USDC_MINT is
\* read inside it, after the state checks.
VSM_load ==
  /\ VSM
  /\ Load({ "keyPath", "keyFile", "programId" }, "subscribe")
  /\ UNCHANGED << runVars, chain, height, subscribeCalls, unsubscribeCalls,
                  state, marketIndex, tx, latestBlockHash, exitCode >>

VSM_subscribe ==
  /\ VSM /\ pc = "subscribe"
  /\ Subscribe(<< >>, "validate", "catch")
  /\ UNCHANGED << runVars, chain, height, unsubscribeCalls, state,
                  marketIndex, tx, latestBlockHash, exitCode >>

\* The admin check of the script left a warning: the checks without it.
VSM_firstFailure_adminWarning(st) ==
  IF ~st.exists THEN "State account not found"
  ELSE IF ~st.signerOk THEN "Drift signer mismatch"
  ELSE IF st.numberOfMarkets # 0 THEN "Number of markets should be 0"
  ELSE IF st.numberOfSpotMarkets # 0 THEN "Number of spot markets should be 0"
  ELSE IF missing = "mint" THEN "config"
  ELSE "none"

\* The counts of markets left unchecked: the checks without lines 95-102.
VSM_firstFailure_anyCounts(st) ==
  IF ~st.exists THEN "State account not found"
  ELSE IF ~st.signerOk THEN "Drift signer mismatch"
  ELSE IF missing = "mint" THEN "config"
  ELSE IF signer # st.admin THEN "Current wallet is not the admin"
  ELSE IF optimalRate > maxRate THEN "Optimal rate cannot be greater than max rate"
  ELSE IF optimalUtilization <= 0 THEN "Optimal utilization must be greater than zero"
  ELSE IF weights.initialAssetWeight > SPOT_MARKET_WEIGHT_PRECISION
         THEN "Initial asset weight too high"
  ELSE IF weights.maintenanceAssetWeight > SPOT_MARKET_WEIGHT_PRECISION
         THEN "Maintenance asset weight too high"
  ELSE IF weights.initialLiabilityWeight > SPOT_MARKET_WEIGHT_PRECISION
         THEN "Initial liability weight too high"
  ELSE IF weights.maintenanceLiabilityWeight > SPOT_MARKET_WEIGHT_PRECISION
         THEN "Maintenance liability weight too high"
  ELSE "none"

\* The first check that fails, in the order of the script, "none" when all
\* of them pass: checks 0 to 3.
VSM_firstFailure(st) ==
  IF ~st.exists THEN "State account not found"
  ELSE IF ~st.signerOk THEN "Drift signer mismatch"
  ELSE IF st.numberOfMarkets # 0 THEN "Number of markets should be 0"
  ELSE IF st.numberOfSpotMarkets # 0 THEN "Number of spot markets should be 0"
  ELSE IF missing = "mint" THEN "config"
  ELSE IF signer # st.admin THEN "Current wallet is not the admin"
  ELSE IF optimalRate > maxRate THEN "Optimal rate cannot be greater than max rate"
  ELSE IF optimalUtilization <= 0 THEN "Optimal utilization must be greater than zero"
  ELSE IF weights.initialAssetWeight > SPOT_MARKET_WEIGHT_PRECISION
         THEN "Initial asset weight too high"
  ELSE IF weights.maintenanceAssetWeight > SPOT_MARKET_WEIGHT_PRECISION
         THEN "Maintenance asset weight too high"
  ELSE IF weights.initialLiabilityWeight > SPOT_MARKET_WEIGHT_PRECISION
         THEN "Initial liability weight too high"
  ELSE IF weights.maintenanceLiabilityWeight > SPOT_MARKET_WEIGHT_PRECISION
         THEN "Maintenance liability weight too high"
  ELSE "none"

VSM_validateState ==
  /\ VSM /\ pc = "validate"
  /\ LET f == VSM_firstFailure(chain) IN
       IF f = "none"
         THEN /\ state' = chain
              /\ marketIndex' = chain.numberOfMarkets
              /\ out' = out \o << Msg("Admin validation passed", ""),
                                  Msg("Margin weight validation passed", "") >>
              /\ pc' = "mint"
              /\ error' = error
         ELSE /\ state' = IF chain.exists THEN chain ELSE state
              /\ marketIndex' =
                   IF chain.exists /\ chain.signerOk /\ chain.numberOfMarkets = 0
                      /\ chain.numberOfSpotMarkets = 0
                     THEN chain.numberOfMarkets ELSE marketIndex
              /\ out' = IF f = "config" THEN out
                        ELSE Append(out, Msg("validation failed:", f))
              /\ pc' = "catch"
              /\ error' = Err(f)
  /\ UNCHANGED << runVars, chain, height, subscribeCalls, unsubscribeCalls,
                  tx, latestBlockHash, calls, exitCode >>

\* The decimals of the mint not compared: a mint of 9 decimals passes.
VSM_checkMint_anyDecimals ==
  /\ VSM /\ pc = "mint"
  /\ \E r \in { "throw", "notFound", "6", "9" } :
       /\ calls' = Append(calls, Call("getParsedAccountInfo", NoTx, 0, r))
       /\ IF r \in { "6", "9" } /\ signer = state.admin
            THEN /\ out' = Append(out, Msg("All validation checks passed!", ""))
                 /\ pc' = "build"
                 /\ error' = error
            ELSE /\ out' = IF r = "throw" THEN out
                           ELSE Append(out, Msg("validation failed:", r))
                 /\ pc' = "catch"
                 /\ error' =
                      IF r = "throw" THEN Err("rpc")
                      ELSE IF r = "notFound" THEN Err("Could not fetch USDC mint info")
                      ELSE Err("Only admin can initialize active markets")
  /\ UNCHANGED << runVars, chain, height, subscribeCalls, unsubscribeCalls,
                  state, marketIndex, tx, latestBlockHash, exitCode >>

\* connection.getParsedAccountInfo(usdcMint) and checks 4 to 8, which
\* compare constants of the script with themselves except for the admin.
VSM_checkMint ==
  /\ VSM /\ pc = "mint"
  /\ \E r \in { "throw", "notFound", "6", "9" } :
       /\ calls' = Append(calls, Call("getParsedAccountInfo", NoTx, 0, r))
       /\ IF r = "6" /\ signer = state.admin
            THEN /\ out' = Append(out, Msg("All validation checks passed!", ""))
                 /\ pc' = "build"
                 /\ error' = error
            ELSE /\ out' = IF r = "throw" THEN out
                           ELSE Append(out, Msg("validation failed:", r))
                 /\ pc' = "catch"
                 /\ error' =
                      IF r = "throw" THEN Err("rpc")
                      ELSE IF r = "notFound" THEN Err("Could not fetch USDC mint info")
                      ELSE IF r = "9" THEN Err("USDC mint must have 6 decimals")
                      ELSE Err("Only admin can initialize active markets")
  /\ UNCHANGED << runVars, chain, height, subscribeCalls, unsubscribeCalls,
                  state, marketIndex, tx, latestBlockHash, exitCode >>

VSM_getInitializeSpotMarketIx ==
  /\ VSM /\ pc = "build"
  /\ BuildTransaction(1, Ix("initializeSpotMarket", marketIndex, "none"),
                      "blockhash", "catch")
  /\ UNCHANGED << runVars, chain, height, subscribeCalls, unsubscribeCalls,
                  state, marketIndex, latestBlockHash, exitCode >>

VSM_getLatestBlockhash ==
  /\ VSM /\ pc = "blockhash"
  /\ SetFeePayerAndBlockhash(tx, "send", "catch")
  /\ UNCHANGED << runVars, chain, subscribeCalls, unsubscribeCalls, state,
                  marketIndex, latestBlockHash, exitCode >>

VSM_sendTransaction ==
  /\ VSM /\ pc = "send"
  /\ SendTransaction(tx, FALSE,
                     << Msg("Transaction sent:", SigOf(tx.id)),
                        Msg("Waiting for confirmation...", "") >>,
                     "confirm", "innerCatch")
  /\ UNCHANGED << runVars, chain, height, subscribeCalls, unsubscribeCalls,
                  state, marketIndex, tx, latestBlockHash, exitCode >>

VSM_confirmTransaction ==
  /\ VSM /\ pc = "confirm"
  /\ ConfirmTransaction(tx, 0, FALSE,
                        << Msg("Transaction confirmed!", ""),
                           Msg("USDC spot market initialized!", "") >>,
                        "finally", "innerCatch")
  /\ UNCHANGED << runVars, height, subscribeCalls, unsubscribeCalls, state,
                  marketIndex, tx, latestBlockHash, exitCode >>

VSM_innerCatch ==
  /\ VSM /\ pc = "innerCatch"
  /\ out' = out
       \o << Msg("Transaction failed:", error.kind) >>
       \o (IF error.ste THEN << Msg("Error details:", error.kind) >> ELSE << >>)
  /\ pc' = "catch"
  /\ UNCHANGED << runVars, chain, height, subscribeCalls, unsubscribeCalls,
                  state, marketIndex, tx, latestBlockHash, calls, error,
                  exitCode >>

VSM_catch ==
  /\ VSM /\ pc = "catch"
  /\ out' = Append(out, Msg("Error:", error.kind))
  /\ pc' = "finally"
  /\ UNCHANGED << runVars, chain, height, subscribeCalls, unsubscribeCalls,
                  state, marketIndex, tx, latestBlockHash, calls, error,
                  exitCode >>

VSM_finally ==
  /\ VSM /\ pc = "finally"
  /\ Unsubscribe(<< >>, "returned")
  /\ UNCHANGED << runVars, chain, height, subscribeCalls, state, marketIndex,
                  tx, latestBlockHash, exitCode >>

VSM_main ==
  /\ VSM
  /\ Settle(<< Msg("error", error.kind) >>, 0)
  /\ UNCHANGED << runVars, chain, height, subscribeCalls, unsubscribeCalls,
                  state, marketIndex, tx, latestBlockHash >>


\* ------------------------------------------------------------- perp-market
PM == script = "perpMarket"

PM_load ==
  /\ PM
  /\ Load({ "keyPath", "keyFile", "programId" }, "accountInfo")
  /\ UNCHANGED << runVars, chain, height, subscribeCalls, unsubscribeCalls,
                  state, marketIndex, tx, latestBlockHash, exitCode >>

\* The state account is looked up through the client's connection before
\* the client is subscribed; a missing account is thrown out of main.
PM_getAccountInfo ==
  /\ PM /\ pc = "accountInfo"
  /\ \E ok \in BOOLEAN :
       IF ok /\ chain.exists
         THEN /\ calls' = Append(calls, Call("getAccountInfo", NoTx, 0, "ok"))
              /\ pc' = "subscribe"
              /\ error' = error
         ELSE /\ calls' = Append(calls, Call("getAccountInfo", NoTx, 0,
                                             IF ok THEN "null" ELSE "throw"))
              /\ pc' = "rejected"
              /\ error' = Err("state")
  /\ UNCHANGED << runVars, chain, height, subscribeCalls, unsubscribeCalls,
                  state, marketIndex, tx, latestBlockHash, out, exitCode >>

\* await adminClient.subscribe() stands before the try block.
PM_subscribe ==
  /\ PM /\ pc = "subscribe"
  /\ Subscribe(<< >>, "build", "rejected")
  /\ UNCHANGED << runVars, chain, height, unsubscribeCalls, state,
                  marketIndex, tx, latestBlockHash, exitCode >>

\* state.numberOfMarkets is read and the perp market instruction built.
PM_getInitializePerpMarketIx ==
  /\ PM /\ pc = "build"
  /\ state' = chain
  /\ marketIndex' = chain.numberOfMarkets
  /\ BuildTransaction(1, Ix("initializePerpMarket", marketIndex', "none"),
                      "blockhash", "catch")
  /\ UNCHANGED << runVars, chain, height, subscribeCalls, unsubscribeCalls,
                  latestBlockHash, exitCode >>

PM_getLatestBlockhash ==
  /\ PM /\ pc = "blockhash"
  /\ SetFeePayerAndBlockhash(tx, "send", "catch")
  /\ UNCHANGED << runVars, chain, subscribeCalls, unsubscribeCalls, state,
                  marketIndex, latestBlockHash, exitCode >>

PM_sendTransaction ==
  /\ PM /\ pc = "send"
  /\ SendTransaction(tx, FALSE, << Msg("Waiting for confirmation...", "") >>,
                     "confirm", "catch")
  /\ UNCHANGED << runVars, chain, height, subscribeCalls, unsubscribeCalls,
                  state, marketIndex, tx, latestBlockHash, exitCode >>

PM_confirmTransaction ==
  /\ PM /\ pc = "confirm"
  /\ ConfirmTransaction(tx, 0, FALSE,
                        << Msg("Transaction confirmed!", SigOf(tx.id)) >>,
                        "build2", "catch")
  /\ UNCHANGED << runVars, height, subscribeCalls, unsubscribeCalls, state,
                  marketIndex, tx, latestBlockHash, exitCode >>

\* The index read again after the creation: the market that does not exist yet.
PM_getInitializePredictionMarketIx_rereadsIndex ==
  /\ PM /\ pc = "build2"
  /\ BuildTransaction(2, Ix("initializePredictionMarket", chain.numberOfMarkets,
                            "none"),
                      "blockhash2", "catch")
  /\ UNCHANGED << runVars, chain, height, subscribeCalls, unsubscribeCalls,
                  state, marketIndex, latestBlockHash, exitCode >>

PM_getInitializePredictionMarketIx ==
  /\ PM /\ pc = "build2"
  /\ BuildTransaction(2, Ix("initializePredictionMarket", marketIndex, "none"),
                      "blockhash2", "catch")
  /\ UNCHANGED << runVars, chain, height, subscribeCalls, unsubscribeCalls,
                  state, marketIndex, latestBlockHash, exitCode >>

PM_getLatestBlockhash2 ==
  /\ PM /\ pc = "blockhash2"
  /\ SetFeePayerAndBlockhash(tx, "send2", "catch")
  /\ UNCHANGED << runVars, chain, subscribeCalls, unsubscribeCalls, state,
                  marketIndex, latestBlockHash, exitCode >>

PM_sendPredictionTx ==
  /\ PM /\ pc = "send2"
  /\ SendTransaction(tx, FALSE, << Msg("Waiting for confirmation...", "") >>,
                     "confirm2", "catch")
  /\ UNCHANGED << runVars, chain, height, subscribeCalls, unsubscribeCalls,
                  state, marketIndex, tx, latestBlockHash, exitCode >>

PM_confirmPredictionTx ==
  /\ PM /\ pc = "confirm2"
  /\ ConfirmTransaction(tx, 0, FALSE,
                        << Msg("Transaction confirmed!", ""),
                           Msg("Converted to prediction market:", SigOf(tx.id)) >>,
                        "finally", "catch")
  /\ UNCHANGED << runVars, height, subscribeCalls, unsubscribeCalls, state,
                  marketIndex, tx, latestBlockHash, exitCode >>

\* A handler that submits the transaction again, once.
PM_catch_retries ==
  /\ PM /\ pc = "catch"
  /\ out' = Append(out, Msg("Error:", error.kind))
  /\ pc' = IF Cardinality({ i \in DOMAIN calls : calls[i].op = "send" }) = 1
             THEN "send" ELSE "finally"
  /\ UNCHANGED << runVars, chain, height, subscribeCalls, unsubscribeCalls,
                  state, marketIndex, tx, latestBlockHash, calls, error,
                  exitCode >>

PM_catch ==
  /\ PM /\ pc = "catch"
  /\ out' = Append(out, Msg("Error:", error.kind))
  /\ pc' = "finally"
  /\ UNCHANGED << runVars, chain, height, subscribeCalls, unsubscribeCalls,
                  state, marketIndex, tx, latestBlockHash, calls, error,
                  exitCode >>

PM_finally ==
  /\ PM /\ pc = "finally"
  /\ Unsubscribe(<< >>, "returned")
  /\ UNCHANGED << runVars, chain, height, subscribeCalls, state, marketIndex,
                  tx, latestBlockHash, exitCode >>

PM_main ==
  /\ PM
  /\ Settle(<< Msg("error", error.kind) >>, 0)
  /\ UNCHANGED << runVars, chain, height, subscribeCalls, unsubscribeCalls,
                  state, marketIndex, tx, latestBlockHash >>

\* ------------------------------------------------------------- check-state
CS == script = "checkState"

CS_load ==
  /\ CS
  /\ Load({ "keyPath", "keyFile", "programId" }, "subscribe")
  /\ UNCHANGED << runVars, chain, height, subscribeCalls, unsubscribeCalls,
                  state, marketIndex, tx, latestBlockHash, exitCode >>

CS_subscribe ==
  /\ CS /\ pc = "subscribe"
  /\ Subscribe(<< >>, "state", "catch")
  /\ UNCHANGED << runVars, chain, height, unsubscribeCalls, state,
                  marketIndex, tx, latestBlockHash, exitCode >>

Num(n) == IF n = 0 THEN "0" ELSE IF n = 1 THEN "1" ELSE IF n = 2 THEN "2" ELSE "many"
Bool(b) == IF b THEN "true" ELSE "false"

\* An inspection that writes: the run registers a spot market as it reads.
CS_getStateAccount_registersMarket ==
  /\ CS /\ pc = "state"
  /\ IF chain.exists
       THEN /\ state' = chain
            /\ chain' = [chain EXCEPT !.numberOfSpotMarkets =
                                        IF @ < MaxMarkets THEN @ + 1 ELSE @]
            /\ out' = out \o << Msg("Number of Markets:", Num(chain.numberOfMarkets)),
                                Msg("Number of Spot Markets:",
                                    Num(chain.numberOfSpotMarkets)) >>
            /\ pc' = "stateInfo"
            /\ error' = error
       ELSE /\ state' = state
            /\ chain' = chain
            /\ out' = out
            /\ pc' = "catch"
            /\ error' = Err("state")
  /\ UNCHANGED << runVars, height, subscribeCalls, unsubscribeCalls,
                  marketIndex, tx, latestBlockHash, calls, exitCode >>

CS_getStateAccount ==
  /\ CS /\ pc = "state"
  /\ IF chain.exists
       THEN /\ state' = chain
            /\ out' = out \o << Msg("Number of Markets:", Num(chain.numberOfMarkets)),
                                Msg("Number of Spot Markets:",
                                    Num(chain.numberOfSpotMarkets)) >>
            /\ pc' = "stateInfo"
            /\ error' = error
       ELSE /\ state' = state
            /\ out' = out
            /\ pc' = "catch"
            /\ error' = Err("state")
  /\ UNCHANGED << runVars, chain, height, subscribeCalls, unsubscribeCalls,
                  marketIndex, tx, latestBlockHash, calls, exitCode >>

CS_getStateAccountInfo ==
  /\ CS /\ pc = "stateInfo"
  /\ \E ok \in BOOLEAN :
       IF ok
         THEN /\ calls' = Append(calls, Call("getAccountInfo", NoTx, 0, "ok"))
              /\ out' = Append(out, Msg("State Account Exists:", Bool(chain.exists)))
              /\ pc' = "spotInfo"
              /\ error' = error
         ELSE /\ calls' = Append(calls, Call("getAccountInfo", NoTx, 0, "throw"))
              /\ out' = out
              /\ pc' = "catch"
              /\ error' = Err("rpc")
  /\ UNCHANGED << runVars, chain, height, subscribeCalls, unsubscribeCalls,
                  state, marketIndex, tx, latestBlockHash, exitCode >>

CS_getSpotMarketInfo ==
  /\ CS /\ pc = "spotInfo"
  /\ \E ok \in BOOLEAN :
       IF ok
         THEN /\ calls' = Append(calls, Call("getAccountInfo", NoTx, 0, "ok"))
              /\ out' = out
                   \o << Msg("Spot Market Exists:",
                             Bool(chain.numberOfSpotMarkets > 0)) >>
                   \o (IF chain.numberOfSpotMarkets > 0
                         THEN << Msg("Spot Market Configuration:", "market 0") >>
                         ELSE << >>)
              /\ pc' = "finally"
              /\ error' = error
         ELSE /\ calls' = Append(calls, Call("getAccountInfo", NoTx, 0, "throw"))
              /\ out' = out
              /\ pc' = "catch"
              /\ error' = Err("rpc")
  /\ UNCHANGED << runVars, chain, height, subscribeCalls, unsubscribeCalls,
                  state, marketIndex, tx, latestBlockHash, exitCode >>

CS_catch ==
  /\ CS /\ pc = "catch"
  /\ out' = Append(out, Msg("Error:", error.kind))
  /\ pc' = "finally"
  /\ UNCHANGED << runVars, chain, height, subscribeCalls, unsubscribeCalls,
                  state, marketIndex, tx, latestBlockHash, calls, error,
                  exitCode >>

CS_finally ==
  /\ CS /\ pc = "finally"
  /\ Unsubscribe(<< >>, "returned")
  /\ UNCHANGED << runVars, chain, height, subscribeCalls, state, marketIndex,
                  tx, latestBlockHash, exitCode >>

CS_main ==
  /\ CS
  /\ Settle(<< Msg("error", error.kind) >>, 0)
  /\ UNCHANGED << runVars, chain, height, subscribeCalls, unsubscribeCalls,
                  state, marketIndex, tx, latestBlockHash >>

\* ---------------------------------------------------------- mock USDC mint
MM == script = "mockUSDCMint"

MM_load ==
  /\ MM
  /\ Load({ "keyFile" }, "rent")
  /\ UNCHANGED << runVars, chain, height, subscribeCalls, unsubscribeCalls,
                  state, marketIndex, tx, latestBlockHash, exitCode >>

\* getMinimumBalanceForRentExemptMint(connection), then the first
\* transaction: it is given neither a fee payer nor a blockhash.
MM_getMinimumBalance ==
  /\ MM /\ pc = "rent"
  /\ \E ok \in BOOLEAN :
       IF ok
         THEN /\ calls' = Append(calls, Call("getMinimumBalance", NoTx, 0, "ok"))
              /\ tx' = NewTransaction(1, Ix("createMint", 0, "none"))
              /\ pc' = "send"
              /\ error' = error
         ELSE /\ calls' = Append(calls, Call("getMinimumBalance", NoTx, 0, "throw"))
              /\ tx' = tx
              /\ pc' = "rejected"
              /\ error' = Err("rpc")
  /\ UNCHANGED << runVars, chain, height, subscribeCalls, unsubscribeCalls,
                  state, marketIndex, latestBlockHash, out, exitCode >>

\* sendAndConfirmTransaction(connection, fakeUSDCTx, ...): its submission
MM_sendMintTx ==
  /\ MM /\ pc = "send"
  /\ SendTransaction(tx, FALSE, << >>, "confirm", "rejected")
  /\ UNCHANGED << runVars, chain, height, subscribeCalls, unsubscribeCalls,
                  state, marketIndex, tx, latestBlockHash, exitCode >>

\* ... and its confirmation wait; then the second transaction is made.
MM_confirmMintTx ==
  /\ MM /\ pc = "confirm"
  /\ ConfirmTransaction(tx, 0, TRUE, << Msg("Mint created", SigOf(tx.id)) >>,
                        "send2", "rejected")
  /\ tx' = IF pc' = "send2" THEN NewTransaction(2, Ix("mintTo", 0, "none")) ELSE tx
  /\ UNCHANGED << runVars, height, subscribeCalls, unsubscribeCalls, state,
                  marketIndex, latestBlockHash, exitCode >>

MM_sendTokenTx ==
  /\ MM /\ pc = "send2"
  /\ SendTransaction(tx, FALSE, << >>, "confirm2", "rejected")
  /\ UNCHANGED << runVars, chain, height, subscribeCalls, unsubscribeCalls,
                  state, marketIndex, tx, latestBlockHash, exitCode >>

MM_confirmTokenTx ==
  /\ MM /\ pc = "confirm2"
  /\ ConfirmTransaction(tx, 0, TRUE,
                        << Msg("Token account created and tokens minted successfully!",
                               "") >>,
                        "returned", "rejected")
  /\ UNCHANGED << runVars, height, subscribeCalls, unsubscribeCalls, state,
                  marketIndex, tx, latestBlockHash, exitCode >>

\* mockUSDCMint(): no handler; a rejection is left to the runtime.
MM_main ==
  /\ MM
  /\ Settle(<< Msg("uncaught", error.kind) >>, 1)
  /\ UNCHANGED << runVars, chain, height, subscribeCalls, unsubscribeCalls,
                  state, marketIndex, tx, latestBlockHash >>


\* ------------------------------------------------------------------- Next
\* A step of the script that is running.
Step ==
  \/ UA_load \/ UA_subscribe \/ UA_fetchState \/ UA_updateAdmin
  \/ UA_getLatestBlockhash \/ UA_confirmTransaction \/ UA_verify
  \/ UA_catch \/ UA_finally \/ UA_main
  \/ IU_load \/ IU_subscribe \/ IU_getInitializeUserAccountIxs
  \/ IU_getLatestBlockhash \/ IU_sendTransaction \/ IU_confirmTransaction
  \/ IU_catch \/ IU_finally \/ IU_main
  \/ PO_load \/ PO_subscribe \/ PO_getAccounts \/ PO_getPlacePerpOrderIx
  \/ PO_getLatestBlockhash \/ PO_sendTransaction \/ PO_confirmTransaction
  \/ PO_catch \/ PO_finally \/ PO_main
  \/ IP_load \/ IP_getLatestBlockhash \/ IP_sendTransaction
  \/ IP_confirmTransaction \/ IP_catch \/ IP_main
  \/ CSM_load \/ CSM_subscribe \/ CSM_getStateAccount
  \/ CSM_getInitializeSpotMarketIx \/ CSM_getLatestBlockhash
  \/ CSM_sendTransaction \/ CSM_confirmTransaction \/ CSM_innerCatch
  \/ CSM_catch \/ CSM_finally \/ CSM_main
  \/ VSM_load \/ VSM_subscribe \/ VSM_validateState \/ VSM_checkMint
  \/ VSM_getInitializeSpotMarketIx \/ VSM_getLatestBlockhash
  \/ VSM_sendTransaction \/ VSM_confirmTransaction \/ VSM_innerCatch
  \/ VSM_catch \/ VSM_finally \/ VSM_main
  \/ PM_load \/ PM_getAccountInfo \/ PM_subscribe
  \/ PM_getInitializePerpMarketIx \/ PM_getLatestBlockhash
  \/ PM_sendTransaction \/ PM_confirmTransaction
  \/ PM_getInitializePredictionMarketIx \/ PM_getLatestBlockhash2
  \/ PM_sendPredictionTx \/ PM_confirmPredictionTx
  \/ PM_catch \/ PM_finally \/ PM_main
  \/ CS_load \/ CS_subscribe \/ CS_getStateAccount \/ CS_getStateAccountInfo
  \/ CS_getSpotMarketInfo \/ CS_catch \/ CS_finally \/ CS_main
  \/ MM_load \/ MM_getMinimumBalance \/ MM_sendMintTx \/ MM_confirmMintTx
  \/ MM_sendTokenTx \/ MM_confirmTokenTx \/ MM_main

Next == StartRun \/ Step

Spec == Init /\ [][Next]_vars

\* Every await of a script returns or throws, so a run that can take a step
\* takes it.  The runs of a fair behaviour are bounded by FairRuns.
FairStartRun == StartRun /\ runs' <= FairRuns
FairNext == FairStartRun \/ Step
FairSpec == Init /\ [][FairNext]_vars /\ WF_vars(FairNext)

\* ------------------------------------------------------- reading the run
Ended == pc \in { "returned", "rejected", "exited" }

Sends == { i \in DOMAIN calls : calls[i].op = "send" }
Confirms == { i \in DOMAIN calls : calls[i].op = "confirm" }
GotSignature(i) == calls[i].res = "sig"
WaitReturned(i) ==
  calls[i].res = "ok" \/ (calls[i].res = "err" /\ script # "mockUSDCMint")

SubscribeSucceeded ==
  \E i \in DOMAIN calls : calls[i].op = "subscribe" /\ calls[i].res = "ok"

\* The messages by which a script reports that transaction k went through.
ReportsSuccess(m, k) ==
  IF k = 1
    THEN \/ m.text \in { "Transaction confirmed.", "Successfully updated admin to:",
                         "User created!", "Order placed!",
                         "Program initialized successfully!",
                         "USDC spot market initialized!", "Mint created" }
         \/ m.text = "Transaction confirmed!" /\ ~(PM /\ m.arg = "")
    ELSE \/ m.text \in { "Converted to prediction market:",
                         "Token account created and tokens minted successfully!" }
         \/ m.text = "Transaction confirmed!" /\ PM /\ m.arg = ""

SuccessReported(k) == \E j \in DOMAIN out : ReportsSuccess(out[j], k)

\* The messages of the scripts' error handlers.
ErrorTexts ==
  { "Error updating admin:", "Error initializing user:", "Error placing order:",
    "Transaction failed:", "Error:", "error", "uncaught", "Unhandled error in main:" }

ErrorReported(kind) ==
  \E j \in DOMAIN out : out[j].text \in ErrorTexts /\ out[j].arg = kind

\* -------------------------------------------------------------------- C1
\* C1: a success message for a transaction is in the output only when the
\* confirmation wait for that transaction's signature has returned; a
\* signature alone (a submission with no returned wait) never comes with a
\* success message.
C1_SuccessOnlyAfterConfirmation ==
  \A k \in 1..2 :
    SuccessReported(k) =>
      \E i \in Confirms :
        /\ calls[i].tx = k
        /\ WaitReturned(i)
        /\ \E j \in Sends : j < i /\ calls[j].tx = k /\ GotSignature(j)

C1_Witness ==
  /\ script = "perpMarket"
  /\ SuccessReported(1) /\ ~SuccessReported(2)
  /\ \E j \in Sends : calls[j].tx = 2 /\ GotSignature(j)

\* -------------------------------------------------------------------- C2
\* C2: when the main routine of a script has ended and subscribe succeeded
\* in that run, unsubscribe was called exactly once, whatever step failed;
\* and it is never called more than once.
C2_UnsubscribedExactlyOnce ==
  /\ unsubscribeCalls <= 1
  /\ (Ended /\ SubscribeSucceeded) => unsubscribeCalls = 1

\* A run whose confirmation wait failed after subscribe succeeded.
C2_Witness ==
  /\ pc = "exited"
  /\ SubscribeSucceeded
  /\ error.kind = "confirm"
  /\ unsubscribeCalls = 1

\* -------------------------------------------------------------------- C3
\* C3: when the main routine of a script has ended and subscribe was
\* invoked in that run, whether it returned or threw, unsubscribe was
\* invoked.
C3_UnsubscribedWheneverSubscribeInvoked ==
  (Ended /\ subscribeCalls > 0) => unsubscribeCalls > 0

\* -------------------------------------------------------------------- C4
\* C4: when a submission was rejected, no confirmation wait is started for
\* that transaction, no success message is printed for it, and the next
\* thing the run does is its error path: the only call that can follow the
\* rejected submission is the unsubscribe of the cleanup.
C4_RejectedSubmissionNeverConfirmed ==
  \A i \in Sends :
    ~GotSignature(i) =>
      /\ \A j \in Confirms : calls[j].tx # calls[i].tx
      /\ ~SuccessReported(calls[i].tx)
      /\ \A j \in DOMAIN calls : j > i => calls[j].op = "unsubscribe"
      /\ pc \in { "catch", "innerCatch", "finally", "returned", "rejected",
                  "exited" }

\* A preflight rejection in the create-spot-market script, handled.
C4_Witness ==
  /\ script = "createSpotMarket"
  /\ pc = "finally"
  /\ \E i \in Sends : calls[i].res = "preflight"
  /\ ErrorReported("submit")


\* -------------------------------------------------------------------- C5
\* C5: a confirmation wait that ended without a confirmation never comes
\* with a success message for its transaction, and the run it belongs to
\* goes on to its end with the failure reported: it does not wait forever.
WaitExpired == \E i \in Confirms : calls[i].res = "expired"

C5_NoSuccessAfterExpiry ==
  \A i \in Confirms : calls[i].res = "expired" => ~SuccessReported(calls[i].tx)

C5_ExpiryEndsInFailure ==
  /\ []C5_NoSuccessAfterExpiry
  /\ WaitExpired ~> (pc = "exited" /\ WaitExpired /\ ErrorReported("confirm"))

C5_Witness ==
  /\ script = "initUser"
  /\ pc = "exited"
  /\ WaitExpired
  /\ ErrorReported("confirm")
  /\ ~SuccessReported(1)


\* -------------------------------------------------------------------- C6
FetchesBefore(i) ==
  { j \in DOMAIN calls :
      j < i /\ calls[j].op = "getLatestBlockhash" /\ calls[j].res = "ok" }

\* The blockhash of the script's last getLatestBlockhash before call i.
LastFetchedBefore(i) ==
  IF FetchesBefore(i) = { } THEN 0
  ELSE calls[CHOOSE j \in FetchesBefore(i) :
               \A k \in FetchesBefore(i) : k <= j].blockhash

BuiltByScript(i) ==
  /\ calls[i].feePayer = signer
  /\ calls[i].blockhash # 0
  /\ calls[i].blockhash = LastFetchedBefore(i)

\* C6 as claimed: every transaction handed to the submit step, in every
\* script, has the signer as fee payer and the blockhash of the script's
\* most recent getLatestBlockhash.
C6_EverySubmittedTxBuiltByScript == \A i \in Sends : BuiltByScript(i)

\* C6, amended: that holds of the transactions the script builds itself
\* (initialize-program, both spot-market scripts, both transactions of the
\* perp-market script, place-order, init-user).  The mock-mint script and
\* update-admin hand the submit step a transaction on which the script set
\* no fee payer and no blockhash, and fetch no blockhash before it.
C6_ScriptBuiltTxHasSignerAndLatestBlockhash ==
  \A i \in Sends :
    IF script \in { "mockUSDCMint", "updateAdmin" }
      THEN /\ calls[i].feePayer = "unset"
           /\ calls[i].blockhash = 0
           /\ FetchesBefore(i) = { }
      ELSE BuiltByScript(i)

\* Both transactions of the perp-market script submitted, the chain having
\* advanced between them.
C6_Witness ==
  /\ script = "perpMarket"
  /\ \E i, j \in Sends :
       /\ calls[i].tx = 1 /\ calls[j].tx = 2
       /\ calls[j].blockhash > calls[i].blockhash

\* -------------------------------------------------------------------- C7
\* A submission that was rejected or a confirmation wait that threw.
Failure(i) ==
  \/ calls[i].op = "send" /\ ~GotSignature(i)
  \/ calls[i].op = "confirm" /\ ~WaitReturned(i)

VerificationFailed ==
  \E j \in DOMAIN out :
    out[j].text = "Failed to verify admin update. Current admin in state is:"

\* C7: within a run each transaction object is submitted at most once, and
\* no submission follows a rejected submission, a confirmation wait that
\* threw, or a failed verification.
C7_NoResubmission ==
  /\ \A k \in 1..2 : Cardinality({ i \in Sends : calls[i].tx = k }) <= 1
  /\ \A i \in DOMAIN calls : Failure(i) => \A j \in Sends : j <= i
  /\ VerificationFailed =>
       /\ Cardinality(Sends) = 1
       /\ pc \in { "finally", "returned", "rejected", "exited" }

\* The first transaction of the perp-market script failed to confirm.
C7_Witness ==
  /\ script = "perpMarket"
  /\ pc = "exited"
  /\ \E i \in Confirms : calls[i].tx = 1 /\ calls[i].res = "expired"
  /\ Cardinality(Sends) = 1

\* -------------------------------------------------------------------- C8
UA_Mismatch ==
  /\ UA
  /\ \E j \in DOMAIN out :
       out[j].text = "Current program admin from chain is:" /\ out[j].arg # signer

UA_Warned ==
  \E j \in DOMAIN out :
    out[j].text = "WARNING: does not match the current program admin"

UA_Rejected == \E i \in Sends : ~GotSignature(i)

\* The handler's report of the caught error, followed by its log lines.
UA_RejectionLogged(e) ==
  \E j \in DOMAIN out :
    /\ out[j] = Msg("Error updating admin:", e.kind)
    /\ e.logs # << >> =>
         /\ j + 1 + Len(e.logs) <= Len(out)
         /\ out[j + 1] = Msg("Transaction Logs:", "")
         /\ SubSeq(out, j + 2, j + 1 + Len(e.logs)) = LogLines(e.logs)

UA_SuccessMsg ==
  \E j \in DOMAIN out : out[j].text = "Successfully updated admin to:"

\* C8: in update-admin, when the admin read from the chain differs from the
\* signer, the warning is printed, updateAdmin is called all the same, and a
\* rejection of that submission is printed by the error handler with its log
\* lines, with no success message and no verification message.
C8_MismatchWarnsSubmitsAndSurfacesRejection ==
  UA_Mismatch =>
    /\ UA_Warned
    /\ pc # "updateAdmin" => Sends # { }
    /\ UA_Rejected =>
         /\ ~SuccessReported(1)
         /\ ~UA_SuccessMsg
         /\ ~VerificationFailed
         /\ pc # "catch" =>
              \E i \in Sends : UA_RejectionLogged(SendError(calls[i].res))

C8_Witness ==
  /\ UA_Mismatch
  /\ pc = "exited"
  /\ \E i \in Sends : calls[i].res = "preflight"
  /\ UA_RejectionLogged(SendError("preflight"))

\* -------------------------------------------------------------------- C9
VSM_Mismatch == VSM /\ state.exists /\ state.admin # signer

VSM_EarlierChecksPass ==
  /\ state.signerOk
  /\ state.numberOfMarkets = 0
  /\ state.numberOfSpotMarkets = 0
  /\ missing # "mint"

UA_Refetches ==
  { i \in DOMAIN calls :
      calls[i].op = "fetchState" /\ \E j \in Sends : j < i }

UA_RefetchReturned == \E i \in UA_Refetches : calls[i].res = "ok"

UA_HandlerRan ==
  \E j \in DOMAIN out : out[j].text = "Error updating admin:"

\* C10: in update-admin the state account is read again only after the
\* confirmation wait returned; success is reported, with the new admin,
\* exactly when the admin read again is the requested one, a verification
\* failure exactly when it is not, and in both cases the error handler has
\* not run.
C10_VerifyReportsByRefetchedAdmin ==
  UA =>
    /\ \A i \in UA_Refetches :
         \E j \in Confirms : j < i /\ WaitReturned(j)
    /\ UA_SuccessMsg <=>
         (UA_RefetchReturned /\ state.exists /\ state.admin = newAdminPublicKey)
    /\ UA_SuccessMsg =>
         \E j \in DOMAIN out :
           out[j] = Msg("Successfully updated admin to:", newAdminPublicKey)
    /\ VerificationFailed <=>
         (UA_RefetchReturned /\ ~(state.exists /\ state.admin = newAdminPublicKey))
    /\ (UA_SuccessMsg \/ VerificationFailed) => ~UA_HandlerRan

\* The transaction was included, the admin read again is not the new one.
C10_Witness ==
  /\ UA
  /\ pc = "exited"
  /\ VerificationFailed
  /\ state.admin # newAdminPublicKey

\* ------------------------------------------------------------------- C11
\* The failures of the operation that a run can end with.
OperationFailed == error.kind \in { "config", "submit", "confirm" }

\* C11: a run that has ended and whose operation failed (a configuration
\* error, a rejected submission or a confirmation wait that threw) ended
\* with a non-zero exit status, the error having been printed.
C11_FailedRunExitsNonZero ==
  (pc = "exited" /\ OperationFailed) =>
    /\ exitCode # 0
    /\ ErrorReported(error.kind)

\* ------------------------------------------------------------------- C12
\* C12: a run that failed on a missing setting or an unreadable key file
\* has issued no network call before the failure.
C12_ConfigFailureBeforeAnyNetworkCall ==
  error.kind = "config" => calls = << >>

\* ------------------------------------------------------------------- C13
SpotMarketScript == script \in { "validatedSpotMarket", "createSpotMarket" }

Overweight(n) == weights[n] > SPOT_MARKET_WEIGHT_PRECISION

\* The validation error that names weight n.
WeightError(n) ==
  CASE n = "initialAssetWeight" -> "Initial asset weight too high"
    [] n = "maintenanceAssetWeight" -> "Maintenance asset weight too high"
    [] n = "initialLiabilityWeight" -> "Initial liability weight too high"
    [] OTHER -> "Maintenance liability weight too high"

\* The checks that stand before the weight checks passed.
ChecksBeforeWeightsPassed ==
  /\ state.exists /\ state.signerOk
  /\ state.numberOfMarkets = 0 /\ state.numberOfSpotMarkets = 0
  /\ missing # "mint"
  /\ state.admin = signer

LogLinesPrinted(logs) ==
  \E j \in 0..(Len(out) - Len(logs)) :
    SubSeq(out, j + 1, j + Len(logs)) = LogLines(logs)

\* C14: when a run has ended and its submission was rejected with an error
\* that carries program log lines, each of those lines was printed,
\* unchanged and in order.
C14_SubmitLogLinesPrinted ==
  \A i \in Sends :
    (pc = "exited" /\ SendError(calls[i].res).logs # << >>) =>
      LogLinesPrinted(SendError(calls[i].res).logs)

ClientCall(i) ==
  \/ calls[i].op = "fetchState"
  \/ calls[i].op = "send" /\ UA
  \/ calls[i].op = "getAccountInfo" /\ PM
  \/ calls[i].op = "confirm" /\ (IU \/ PO \/ CSM \/ VSM \/ PM)

\* C16: every call that goes through the client comes after a subscribe
\* call of the run that returned.
C16_ClientUsedOnlyAfterSubscribe ==
  \A i \in DOMAIN calls :
    ClientCall(i) =>
      \E j \in DOMAIN calls :
        j < i /\ calls[j].op = "subscribe" /\ calls[j].res = "ok"

\* ------------------------------------------------------------------- C17
\* The submission of the transaction that wait i waits for.
SubmissionOf(i) ==
  { j \in Sends : j < i /\ calls[j].tx = calls[i].tx }

\* The blockhash fetches between the submission of a transaction and call i.
FetchedAfterSubmission(i) ==
  { k \in DOMAIN calls :
      /\ calls[k].op = "getLatestBlockhash" /\ calls[k].res = "ok"
      /\ k < i
      /\ \E j \in SubmissionOf(i) : j < k }

\* C17: every confirmation wait is given a block reference, the one that
\* was attached to its transaction when the transaction was submitted, and
\* never one fetched after the submission.
C17_WaitBoundedByAttachedBlockhash ==
  \A i \in Confirms :
    /\ calls[i].blockhash # 0
    /\ \A j \in SubmissionOf(i) : calls[i].blockhash = calls[j].blockhash
    /\ FetchedAfterSubmission(i) = { }

\* ------------------------------------------------------------------- C18
\* The run fetched a blockhash or submitted.
VSM_Proceeded ==
  \E i \in DOMAIN calls : calls[i].op \in { "getLatestBlockhash", "send" }

\* The results of the run's lookups of the mint account.
VSM_MintResults ==
  { calls[i].res : i \in { k \in DOMAIN calls : calls[k].op = "getParsedAccountInfo" } }

\* A check of the script failed and said so.
VSM_CheckFailed == \E j \in DOMAIN out : out[j].text = "validation failed:"

\* C18: the validated spot-market script fetches a blockhash and submits
\* only when the state account was there with the expected signer, no
\* market and no spot market, the rates and weights within their limits and
\* the mint found with 6 decimals; and when a check failed the run submits
\* nothing, prints the error in its handler and unsubscribes.
C18_SubmitsOnlyIfChecksPassed ==
  VSM =>
    /\ VSM_Proceeded =>
         /\ state.exists /\ state.signerOk
         /\ state.numberOfMarkets = 0 /\ state.numberOfSpotMarkets = 0
         /\ optimalRate <= maxRate /\ optimalUtilization > 0
         /\ \A n \in WeightNames : ~Overweight(n)
         /\ VSM_MintResults = { "6" }
         /\ ~VSM_CheckFailed
    /\ VSM_CheckFailed =>
         /\ ~VSM_Proceeded
         /\ pc \in { "catch", "finally", "returned", "rejected", "exited" }
         /\ pc # "catch" => \E j \in DOMAIN out : out[j].text = "Error:"
         /\ Ended => unsubscribeCalls = 1

\* The script went all the way: submitted, and ended.
C18_Witness ==
  /\ VSM /\ pc = "exited"
  /\ \E i \in Sends : GotSignature(i)
  /\ VSM_MintResults = { "6" }
  /\ unsubscribeCalls = 1

\* ------------------------------------------------------------------- C19
\* The second transaction of the perp-market script is built.
PM_ConversionBuilt == PM /\ tx.id = 2

\* The confirmation waits for the first transaction that returned.
PM_FirstConfirmed ==
  { i \in Confirms : calls[i].tx = 1 /\ WaitReturned(i) }

\* C19: in the perp-market script the conversion transaction is built, and
\* then submitted, only after the wait for the creation transaction
\* returned; it targets the market index read from state.numberOfMarkets
\* before the creation; the blockhash it is submitted with was fetched
\* after that wait; and a run that found no state account has not
\* subscribed and has submitted nothing.
C19_ConversionFollowsConfirmedCreation ==
  PM =>
    /\ PM_ConversionBuilt =>
         /\ PM_FirstConfirmed # { }
         /\ tx.ix = Ix("initializePredictionMarket", marketIndex, "none")
         /\ marketIndex = state.numberOfMarkets
    /\ \A j \in Sends :
         calls[j].tx = 2 =>
           \E i \in PM_FirstConfirmed, k \in FetchesBefore(j) :
             i < k /\ calls[j].blockhash = calls[k].blockhash
    /\ (\E i \in DOMAIN calls :
          calls[i].op = "getAccountInfo" /\ calls[i].res = "null") =>
         subscribeCalls = 0 /\ Sends = { } /\ pc \in { "rejected", "exited" }

\* Both transactions went through.
C19_Witness ==
  /\ PM /\ pc = "exited"
  /\ \E i \in Confirms : calls[i].tx = 2 /\ calls[i].res = "ok"
  /\ \E i \in Confirms : calls[i].tx = 1 /\ calls[i].res = "ok"
  /\ chain.numberOfMarkets = marketIndex + 1

\* ------------------------------------------------------------------- C20
\* C20: a transaction whose confirmation result carries an error (it was
\* included, its execution failed) never comes with the script's success
\* message.
C20_NoSuccessForFailedExecution ==
  \A i \in Confirms :
    calls[i].res = "err" => ~SuccessReported(calls[i].tx)

\* ------------------------------------------------------------------- C21
\* The instruction a spot-market script has built is the one of the
\* transaction it holds.
SpotMarketIxBuilt == SpotMarketScript /\ tx.ix.name = "initializeSpotMarket"

\* C21: in both spot-market creation scripts the market index passed to the
\* spot-market initialization instruction equals numberOfSpotMarkets of the
\* state account as the script read it, whatever the number of perp markets.
C21_IndexIsNumberOfSpotMarkets ==
  SpotMarketIxBuilt => tx.ix.index = state.numberOfSpotMarkets

\* ------------------------------------------------------------------- C22
\* The state account the run read has a perp market or a spot market.
VSM_MarketsExist ==
  VSM /\ state.exists
      /\ (state.numberOfMarkets > 0 \/ state.numberOfSpotMarkets > 0)

\* The check that stops a run which read such a state account: the check of
\* the initial state values, unless the drift signer check before it failed.
VSM_InitialStateError ==
  IF ~state.signerOk THEN "Drift signer mismatch"
  ELSE IF state.numberOfMarkets # 0 THEN "Number of markets should be 0"
  ELSE "Number of spot markets should be 0"

\* A run that read a state account with a market fails there and submits
\* nothing: it makes no network call but subscribe and unsubscribe.
VSM_FailsOnExistingMarkets ==
  VSM_MarketsExist =>
    /\ error.kind \in { VSM_InitialStateError, "unsubscribe" }
    /\ \E j \in DOMAIN out :
         out[j] = Msg("validation failed:", VSM_InitialStateError)
    /\ \A i \in DOMAIN calls : calls[i].op \in { "subscribe", "unsubscribe" }
    /\ tx = NoTx

\* Markets are never removed, and a submission of the script changes the
\* chain only when the state account it read had no market of either kind:
\* it then leaves exactly one spot market.
VSM_CreatesOnlyFirstSpotMarket ==
  /\ chain'.numberOfMarkets >= chain.numberOfMarkets
  /\ chain'.numberOfSpotMarkets >= chain.numberOfSpotMarkets
  /\ (VSM /\ chain' # chain) =>
       /\ state.numberOfMarkets = 0 /\ state.numberOfSpotMarkets = 0
       /\ chain.numberOfSpotMarkets = 0
       /\ chain'.numberOfSpotMarkets = 1

\* C22: across runs of the validated spot-market script at most one run
\* submits a transaction that succeeds: a submission succeeds only on a
\* state account without markets and leaves a spot market that stays, and
\* once a spot market or a perp market exists every later run fails its
\* check of the initial state locally and submits nothing.
C22_AtMostOneRunCreates ==
  [](VSM_FailsOnExistingMarkets) /\ [][VSM_CreatesOnlyFirstSpotMarket]_vars

\* A second run, after a spot market was initialized, stopped by the check
\* of the number of spot markets.
C22_Witness ==
  /\ VSM /\ runs = 2 /\ pc = "exited"
  /\ state.numberOfMarkets = 0 /\ state.numberOfSpotMarkets = 1
  /\ error.kind = "Number of spot markets should be 0"
  /\ Sends = { }

\* ------------------------------------------------------------------- C23
\* The run printed a as the admin it read from the chain.
UA_ReadAdmin(a) ==
  \E j \in DOMAIN out : out[j] = Msg("Current program admin from chain is:", a)

\* A run of update-admin that read an admin other than its signer: the
\* admin it read is still the on-chain admin, the warning is printed,
\* updateAdmin is called all the same, every submission is rejected, nothing
\* is waited for and no success message is printed.
UA_MismatchLeavesAdmin ==
  UA_Mismatch =>
    /\ UA_ReadAdmin(chain.admin)
    /\ UA_Warned
    /\ pc # "updateAdmin" => Sends # { }
    /\ \A i \in Sends : ~GotSignature(i)
    /\ Confirms = { }
    /\ ~SuccessReported(1)
    /\ ~UA_SuccessMsg

\* The admin of an existing state account changes only in a run of
\* update-admin signed by the admin, and becomes the new admin of that run.
UA_OnlyAdminChangesAdmin ==
  (chain.exists /\ chain'.admin # chain.admin) =>
    /\ UA /\ signer = chain.admin
    /\ chain'.admin = newAdminPublicKey

\* C23: after a run of update-admin changed the admin from the signer X to
\* another key Y, the admin stays Y until a run signed by Y changes it, and
\* every later run of update-admin signed by X reads Y, prints the mismatch
\* warning, still submits, is rejected, leaves the admin equal to Y and
\* prints no success message.
C23_FormerAdminCannotChangeAdmin ==
  [](UA_MismatchLeavesAdmin) /\ [][UA_OnlyAdminChangesAdmin]_vars

\* The run before read its own signer as the admin and changed it; this run,
\* with the same signer, read the new admin, was rejected and has ended.
C23_Witness ==
  /\ UA /\ runs = 2 /\ pc = "exited"
  /\ lastReport = << Msg("Current program admin from chain is:", signer) >>
  /\ UA_Mismatch /\ UA_Warned
  /\ chain.admin # signer /\ UA_ReadAdmin(chain.admin)
  /\ \E i \in Sends : calls[i].res = "preflight"
====
